---- MODULE Spec2Model ----
(***************************************************************************)
(* Model of inventory_foundation_sdk: db_mgmt.insert_multi_rows,           *)
(* db_mgmt.check_in_scope_entries and                                      *)
(* kedro_orchestration.verify_db_write_status, together with the part of   *)
(* the PostgreSQL connection (psycopg2) the two database functions drive.  *)
(***************************************************************************)
EXTENDS Integers, Sequences, FiniteSets, TLC

(***************************************************************************)
(* Bounds of the model.                                                    *)
(***************************************************************************)
MaxRows == 3

\* batch_size_for_commit is 1_000_000 in db_mgmt.py line 90; the model keeps
\* the name and scales the interval down so that batches of MaxRows rows
\* cross an interval boundary.
batch_size_for_commit == 2

KeyValues == {1, 2}
ValValues == {1, 2}

(***************************************************************************)
(* Python values held by the cells of the DataFrame and by the table.      *)
(***************************************************************************)
PyInt(n) == [t |-> "int", v |-> n]
PyFloat(n) == [t |-> "float", v |-> n]
NaN == [t |-> "nan", v |-> 0]
Text == [t |-> "str", v |-> 0]

KeyCells == {PyInt(k) : k \in KeyValues}
ValCells == {PyInt(n) : n \in ValValues} \cup {NaN, Text}
DataRows == {<<k, c>> : k \in KeyCells, c \in ValCells}

RECURSIVE SeqsUpTo(_, _)
SeqsUpTo(S, n) ==
    IF n = 0 THEN {<<>>}
    ELSE LET shorter == SeqsUpTo(S, n - 1)
         IN  shorter \cup {Append(s, x) : s \in {q \in shorter : Len(q) = n - 1}, x \in S}

DataFrames == SeqsUpTo(DataRows, MaxRows)

ColumnNameLists == {<<"key">>, <<"key", "val">>, <<"key", "val", "extra">>}
TypeLists == {<<"int">>, <<"int", "float">>, <<"int", "float", "int">>}
None == <<"None">>
UniqueColumnLists == {None, <<>>, <<"key">>}

\* data_to_insert.shape[1]: the DataFrame's column count
DataColumns == <<"key", "val">>
Shape1(data) == Len(DataColumns)

\* data_to_insert.isnull().values.any()
IsNullAny(data) == \E i \in 1..Len(data) : \E j \in 1..Len(data[i]) : data[i][j] = NaN

\* typ(val) for typ in (int, float): the call raises ValueError for a value
\* the type cannot be built from.
CanCoerce(typ, val) ==
    CASE typ = "int" -> val.t \in {"int", "float"}
      [] typ = "float" -> val.t \in {"int", "float", "nan"}
      [] OTHER -> FALSE

Coerce(typ, val) ==
    CASE typ = "int" -> PyInt(val.v)
      [] typ = "float" -> IF val.t = "nan" THEN NaN ELSE PyFloat(val.v)
      [] OTHER -> val

RowCoercible(types, row) ==
    \A j \in 1..(IF Len(types) < Len(row) THEN Len(types) ELSE Len(row)) :
        CanCoerce(types[j], row[j])

\* tuple(typ(val) for typ, val in zip(types, row))
CoerceRow(types, row) ==
    [j \in 1..(IF Len(types) < Len(row) THEN Len(types) ELSE Len(row)) |->
        Coerce(types[j], row[j])]

\* Names bound at module level in db_mgmt.py (imports and definitions).
ModuleGlobals ==
    {"OmegaConfigLoader", "settings", "Path", "pd", "np", "tqdm", "psycopg2",
     "get_db_credentials", "insert_multi_rows", "check_in_scope_entries"}

(***************************************************************************)
(* The statements of insert_multi_rows before the first database call:     *)
(* the exception they raise, or "" when the call goes on to the loop.      *)
(***************************************************************************)
\* PreLoopError with the values coerced row by row inside the loop instead.
PreLoopErrorLazyCoercion(a) ==
    IF IsNullAny(a.data) /\ "logger" \notin ModuleGlobals THEN "NameError"
    ELSE IF Len(a.column_names) # Shape1(a.data) THEN "ValueError:column_names"
    ELSE IF Len(a.types) # Shape1(a.data) THEN "ValueError:types"
    ELSE IF a.return_with_ids /\ (a.unique_columns = None \/ a.unique_columns = <<>>)
         THEN "ValueError:unique_columns"
    ELSE ""

PreLoopError(a) ==
    IF IsNullAny(a.data) /\ "logger" \notin ModuleGlobals THEN "NameError"
    ELSE IF Len(a.column_names) # Shape1(a.data) THEN "ValueError:column_names"
    ELSE IF Len(a.types) # Shape1(a.data) THEN "ValueError:types"
    ELSE IF \E i \in 1..Len(a.data) : ~RowCoercible(a.types, a.data[i])
         THEN "ValueError:coercion"
    ELSE IF a.return_with_ids /\ (a.unique_columns = None \/ a.unique_columns = <<>>)
         THEN "ValueError:unique_columns"
    ELSE ""

PreLoopLog(a) ==
    IF IsNullAny(a.data) /\ "logger" \in ModuleGlobals
    THEN <<[level |-> "warning", msg |-> "There are NaNs in the data",
            table |-> "", exc |-> ""]>>
    ELSE <<>>

DataValues(a) == [i \in 1..Len(a.data) |-> CoerceRow(a.types, a.data[i])]

(***************************************************************************)
(* The target table: rows [ID, key, val], "key" carrying the unique        *)
(* constraint, "ID" assigned by the database.                              *)
(***************************************************************************)
Conflicts(table, row) == {r \in table : r.key = row[1]}

\* InsertDoNothing with the conflicting row overwritten.
InsertDoNothingOverwrite(table, row, newid) ==
    IF Conflicts(table, row) # {}
    THEN {IF r \in Conflicts(table, row) THEN [r EXCEPT !.val = row[2]] ELSE r : r \in table}
    ELSE table \cup {[ID |-> newid, key |-> row[1], val |-> row[2]]}

\* INSERT ... ON CONFLICT DO NOTHING
InsertDoNothing(table, row, newid) ==
    IF Conflicts(table, row) # {} THEN table
    ELSE table \cup {[ID |-> newid, key |-> row[1], val |-> row[2]]}

\* InsertDoUpdate with every column set from EXCLUDED.
InsertDoUpdateAll(table, row, newid) ==
    IF Conflicts(table, row) # {}
    THEN {IF r \in Conflicts(table, row)
          THEN [r EXCEPT !.key = row[1], !.val = row[2]] ELSE r : r \in table}
    ELSE table \cup {[ID |-> newid, key |-> row[1], val |-> row[2]]}

\* INSERT ... ON CONFLICT (unique) DO UPDATE SET u0 = EXCLUDED.u0 RETURNING "ID"
InsertDoUpdate(table, row, newid) ==
    IF Conflicts(table, row) # {}
    THEN {IF r \in Conflicts(table, row) THEN [r EXCEPT !.key = row[1]] ELSE r : r \in table}
    ELSE table \cup {[ID |-> newid, key |-> row[1], val |-> row[2]]}

\* FetchOne answering with the ID handed out last.
FetchOneNewest(table, row) ==
    IF table = {} THEN <<>>
    ELSE <<CHOOSE m \in {r.ID : r \in table} : \A r \in table : r.ID <= m>>

\* cur.fetchone() after the upsert: the returned row, a 1-tuple.
FetchOne(table, row) ==
    LET hit == {r \in table : r.key = row[1]}
    IN  IF hit = {} THEN <<>> ELSE <<(CHOOSE r \in hit : TRUE).ID>>

\* The default of the "ID" column: the next value after the IDs handed out.
NextID(table) ==
    IF table = {} THEN 1
    ELSE 1 + (CHOOSE m \in {r.ID : r \in table} : \A r \in table : r.ID <= m)

(***************************************************************************)
(* State.  node: the function the pipeline node under study calls.         *)
(* pc, ret, log, spy: the position of the running call, its outcome, the   *)
(* records handed to the logger and the calls counted on the connection.   *)
(* args, loc, conn, firstIds: insert_multi_rows' arguments and locals, the *)
(* caller's connection (committed table, the open transaction's view of    *)
(* it, transaction status) and the ID first returned for each key.         *)
(* sargs, sloc, ref, tgt, lastOK: check_in_scope_entries' arguments and    *)
(* locals, the dataset_matching table, the target table and whether the    *)
(* previous call returned normally.  flags: verify_db_write_status' args.  *)
(***************************************************************************)
VARIABLES node, pc, ret, log, spy, args, loc, conn, firstIds,
          sargs, sloc, ref, tgt, lastOK, flags

vars == <<node, pc, ret, log, spy, args, loc, conn, firstIds,
          sargs, sloc, ref, tgt, lastOK, flags>>
insertVars == <<args, loc, conn, firstIds>>
scopeVars == <<sargs, sloc, ref, tgt, lastOK>>

NoSpy == [connect |-> 0, execute |-> 0, commit |-> 0]

NoArgs ==
    [data |-> <<>>, column_names |-> <<>>, types |-> <<>>,
     return_with_ids |-> FALSE, unique_columns |-> None]
NoLoc ==
    [data_values |-> <<>>, row_count |-> 0, ids |-> <<>>, tableAtCall |-> {},
     seenAtCall |-> [k \in KeyValues |-> 0]]
\* The outcome of a call: nothing yet, a returned value (None, a frame with
\* IDs, or a bool), or a raised exception.
NoRet == [kind |-> "none", exc |-> "", none |-> TRUE, df |-> <<>>, bool |-> FALSE]
Raise(e) == [kind |-> "raise", exc |-> e, none |-> TRUE, df |-> <<>>, bool |-> FALSE]
ReturnNone == [kind |-> "return", exc |-> "", none |-> TRUE, df |-> <<>>, bool |-> FALSE]
ReturnFrame(df) == [kind |-> "return", exc |-> "", none |-> FALSE, df |-> df, bool |-> FALSE]
ReturnBool(b) == [kind |-> "return", exc |-> "", none |-> FALSE, df |-> <<>>, bool |-> b]

LogRecord(level, msg, table, exc) ==
    [level |-> level, msg |-> msg, table |-> table, exc |-> exc]

(***************************************************************************)
(* The calls the model makes.  A well-formed call takes any batch of up to *)
(* MaxRows rows in either mode.  A malformed call departs from a           *)
(* well-formed one in exactly one respect: one cell that is NaN or text    *)
(* (in any row, the other rows carrying the value 1), or, with a batch of  *)
(* at most one row, a wrong column_names count, a wrong types count, or    *)
(* return_with_ids without usable unique_columns.                          *)
(***************************************************************************)
BadCells(data) ==
    Cardinality({<<i, j>> \in (1..Len(data)) \X (1..Len(DataColumns)) :
                    data[i][j] \in {NaN, Text}})

BadArgs(a) ==
    (IF Len(a.column_names) # Len(DataColumns) THEN 1 ELSE 0)
    + (IF Len(a.types) # Len(DataColumns) THEN 1 ELSE 0)
    + (IF a.return_with_ids /\ a.unique_columns # <<"key">> THEN 1 ELSE 0)

InsertInputs ==
    {a \in [data : DataFrames, column_names : ColumnNameLists, types : TypeLists,
            return_with_ids : BOOLEAN, unique_columns : UniqueColumnLists] :
        /\ BadCells(a.data) + BadArgs(a) <= 1
        /\ (~a.return_with_ids => a.unique_columns = None)
        /\ (BadArgs(a) = 1 => Len(a.data) <= 1)
        /\ (BadCells(a.data) = 1 =>
                \A i \in 1..Len(a.data) : a.data[i][2] \in {NaN, Text, PyInt(1)})}

NoScopeArgs ==
    [dataset_id |-> 0, further_primary_keys |-> None,
     further_primary_keys_values |-> None]
NoScopeLoc ==
    [all_sku_ids |-> {}, existing_sku_ids |-> {}, todo |-> {}, tableAtCall |-> {},
     error |-> ""]
NoTarget == [extra |-> <<>>, committed |-> {}, work |-> {}]

InitInsert ==
    /\ node = "insert"
    /\ pc = "idle"
    /\ args = NoArgs
    /\ loc = NoLoc
    /\ ret = NoRet
    /\ log = <<>>
    /\ spy = NoSpy
    /\ conn = [committed |-> {}, work |-> {}, status |-> "idle"]
    /\ firstIds = [k \in KeyValues |-> 0]
    /\ sargs = NoScopeArgs
    /\ sloc = NoScopeLoc
    /\ ref = {}
    /\ tgt = NoTarget
    /\ lastOK = FALSE
    /\ flags = <<>>

(***************************************************************************)
(* insert_multi_rows                                                       *)
(***************************************************************************)
\* Lines 66-95: the call and everything it does before the insert loop.
insert_multi_rows(a) ==
    /\ node = "insert"
    /\ pc = "idle"
    /\ args' = a
    /\ log' = PreLoopLog(a)
    /\ spy' = NoSpy
    /\ IF PreLoopError(a) = ""
       THEN /\ pc' = "loop"
            /\ ret' = NoRet
            /\ loc' = [data_values |-> DataValues(a), row_count |-> 0, ids |-> <<>>,
                       tableAtCall |-> conn.committed, seenAtCall |-> firstIds]
       ELSE /\ pc' = "done"
            /\ ret' = Raise(PreLoopError(a))
            /\ loc' = [NoLoc EXCEPT !.tableAtCall = conn.committed,
                                    !.seenAtCall = firstIds]
    /\ UNCHANGED <<node, conn, firstIds, scopeVars, flags>>

\* CommitDue counting from the row about to be executed.
CommitDueOffByOne(row_count) == (row_count + 1) % batch_size_for_commit = 0

\* row_count % batch_size_for_commit == 0
CommitDue(row_count) == row_count % batch_size_for_commit = 0

\* conn.commit() inside the loop
IntervalCommit(c, row_count) ==
    IF CommitDue(row_count) THEN [c EXCEPT !.committed = c.work] ELSE c

IntervalCommits(row_count) == IF CommitDue(row_count) THEN 1 ELSE 0

\* if row_id: ids.append(row_id[0])
AppendId(ids, row_id) == IF row_id # <<>> THEN Append(ids, row_id[1]) ELSE ids

\* Lines 111-121: one iteration of the loop that collects IDs.
insert_row_returning_id ==
    /\ node = "insert"
    /\ pc = "loop"
    /\ args.return_with_ids
    /\ loc.row_count < Len(loc.data_values)
    /\ LET row == loc.data_values[loc.row_count + 1]
       IN    LET work == InsertDoUpdate(conn.work, row, NextID(conn.work))
                 n == loc.row_count + 1
             IN  /\ conn' = IntervalCommit([conn EXCEPT !.work = work], n)
                 /\ loc' = [loc EXCEPT !.row_count = n,
                                       !.ids = AppendId(loc.ids, FetchOne(work, row))]
                 /\ spy' = [spy EXCEPT !.execute = spy.execute + 1,
                                       !.commit = spy.commit + IntervalCommits(n)]
    /\ UNCHANGED <<node, pc, args, ret, log, firstIds, scopeVars, flags>>

\* Lines 138-143: one iteration of the loop that returns no IDs.
insert_row_no_id ==
    /\ node = "insert"
    /\ pc = "loop"
    /\ ~args.return_with_ids
    /\ loc.row_count < Len(loc.data_values)
    /\ LET row == loc.data_values[loc.row_count + 1]
       IN    LET work == InsertDoNothing(conn.work, row, NextID(conn.work))
                 n == loc.row_count + 1
             IN  /\ conn' = IntervalCommit([conn EXCEPT !.work = work], n)
                 /\ loc' = [loc EXCEPT !.row_count = n]
                 /\ spy' = [spy EXCEPT !.execute = spy.execute + 1,
                                       !.commit = spy.commit + IntervalCommits(n)]
    /\ UNCHANGED <<node, pc, args, ret, log, firstIds, scopeVars, flags>>

\* insert_execute_fails with a commit on the way out (a finally: conn.commit()).
insert_execute_fails_commits ==
    /\ node = "insert"
    /\ pc = "loop"
    /\ loc.row_count < Len(loc.data_values)
    /\ spy' = [spy EXCEPT !.execute = spy.execute + 1]
    /\ conn' = [conn EXCEPT !.committed = conn.work]
    /\ pc' = "done"
    /\ ret' = Raise("DatabaseError")
    /\ UNCHANGED <<node, args, loc, log, firstIds, scopeVars, flags>>

\* cur.execute raises (lines 112, 139): the exception leaves the function, the
\* server marks the transaction aborted.
insert_execute_fails ==
    /\ node = "insert"
    /\ pc = "loop"
    /\ loc.row_count < Len(loc.data_values)
    /\ spy' = [spy EXCEPT !.execute = spy.execute + 1]
    /\ conn' = [conn EXCEPT !.status = "aborted"]
    /\ pc' = "done"
    /\ ret' = Raise("DatabaseError")
    /\ UNCHANGED <<node, args, loc, log, firstIds, scopeVars, flags>>

\* The ID a completed call of mode B reported first for each key.
RecordFirstIds(f, data_values, ids) ==
    [k \in KeyValues |->
        IF f[k] # 0 THEN f[k]
        ELSE LET at == {i \in 1..Len(ids) : i <= Len(data_values) /\ data_values[i][1].v = k}
             IN  IF at = {} THEN 0
                 ELSE ids[CHOOSE i \in at : \A j \in at : i <= j]]

\* data_with_ids = data_to_insert.copy(); data_with_ids["ID"] = ids
WithIds(data, ids) == [i \in 1..Len(data) |-> [row |-> data[i], ID |-> ids[i]]]

\* Lines 122-127: the final commit and the returned frame.
insert_return_with_ids ==
    /\ node = "insert"
    /\ pc = "loop"
    /\ args.return_with_ids
    /\ loc.row_count = Len(loc.data_values)
    /\ conn' = [conn EXCEPT !.committed = conn.work]
    /\ spy' = [spy EXCEPT !.commit = spy.commit + 1]
    /\ pc' = "done"
    /\ IF Len(loc.ids) = Len(args.data)
       THEN /\ ret' = ReturnFrame(WithIds(args.data, loc.ids))
            /\ firstIds' = RecordFirstIds(firstIds, loc.data_values, loc.ids)
       ELSE /\ ret' = Raise("ValueError:length")
            /\ firstIds' = firstIds
    /\ UNCHANGED <<node, args, loc, log, scopeVars, flags>>

\* Lines 145-147: the final commit of the loop without IDs.
insert_return_none ==
    /\ node = "insert"
    /\ pc = "loop"
    /\ ~args.return_with_ids
    /\ loc.row_count = Len(loc.data_values)
    /\ conn' = [conn EXCEPT !.committed = conn.work]
    /\ spy' = [spy EXCEPT !.commit = spy.commit + 1]
    /\ pc' = "done"
    /\ ret' = ReturnNone
    /\ UNCHANGED <<node, args, loc, log, firstIds, scopeVars, flags>>

\* The caller takes the outcome of the call; after an exception from the
\* database it calls conn.rollback() before it uses the connection again.
caller_continues ==
    /\ node = "insert"
    /\ pc = "done"
    /\ pc' = "idle"
    /\ conn' = IF conn.status = "aborted"
               THEN [conn EXCEPT !.work = conn.committed, !.status = "idle"]
               ELSE conn
    /\ args' = NoArgs
    /\ loc' = NoLoc
    /\ ret' = NoRet
    /\ log' = <<>>
    /\ spy' = NoSpy
    /\ UNCHANGED <<node, firstIds, scopeVars, flags>>

(***************************************************************************)
(* check_in_scope_entries                                                  *)
(*                                                                         *)
(* The target table has the key columns (id_column, dataset_column) and    *)
(* the columns of tgt.extra, and the columns of insert_arguments.  A row   *)
(* is [sku, ds, k, a]: k the values of the extra key columns, a the        *)
(* values of the insert_arguments columns.                                 *)
(***************************************************************************)
MaxSku == 3
Skus == 1..MaxSku
Datasets == {1, 2}
target_table == "target"
insert_arguments == <<"a", "b">>
StoredArgs == <<4, 9>>
ExtraKeyLists == {None, <<>>, <<"k">>}
ExtraValueLists == {None, <<>>, <<"v1">>}

\* Python truthiness of an optional list: None and [] are false.
Truthy(list) == list # None /\ list # <<>>

\* Initial tables: the rows another writer left for the partition the call
\* asks about, and rows of another partition or another extra key value.
RowsOfInterest(E, ds, k) == {[sku |-> e, ds |-> ds, k |-> k, a |-> StoredArgs] : e \in E}
ForeignRows(extra) ==
    {[sku |-> e, ds |-> 2, k |-> (IF extra = <<>> THEN <<>> ELSE <<"v1">>), a |-> StoredArgs] :
        e \in Skus}
    \cup (IF extra = <<>> THEN {}
          ELSE {[sku |-> e, ds |-> 1, k |-> <<"v2">>, a |-> StoredArgs] : e \in Skus})

InitScope ==
    /\ node = "scope"
    /\ pc = "idle"
    /\ ret = NoRet
    /\ log = <<>>
    /\ spy = NoSpy
    /\ args = NoArgs
    /\ loc = NoLoc
    /\ conn = [committed |-> {}, work |-> {}, status |-> "idle"]
    /\ firstIds = [k \in KeyValues |-> 0]
    /\ sargs \in [dataset_id : {1}, further_primary_keys : ExtraKeyLists,
                  further_primary_keys_values : ExtraValueLists]
    /\ sloc = NoScopeLoc
    /\ \E U1 \in SUBSET Skus, U2 \in {{}, Skus} :
          ref = {[sku |-> u, ds |-> 1] : u \in U1} \cup {[sku |-> u, ds |-> 2] : u \in U2}
    /\ \E extra \in {<<>>, <<"k">>}, E \in SUBSET Skus, foreign \in BOOLEAN :
          LET rows == RowsOfInterest(E, 1, IF extra = <<>> THEN <<>> ELSE <<"v1">>)
                      \cup (IF foreign THEN ForeignRows(extra) ELSE {})
          IN  tgt = [extra |-> extra, committed |-> rows, work |-> rows]
    /\ lastOK = FALSE
    /\ flags = <<>>

\* Lines 175-177: the call and its argument check.
check_in_scope_entries ==
    /\ node = "scope"
    /\ pc = "idle"
    /\ spy' = NoSpy
    /\ log' = <<>>
    /\ sloc' = [NoScopeLoc EXCEPT !.tableAtCall = tgt.committed]
    /\ IF (sargs.further_primary_keys = None) # (sargs.further_primary_keys_values = None)
       THEN /\ pc' = "done"
            /\ ret' = Raise("ValueError:further_primary_keys")
       ELSE /\ pc' = "connect"
            /\ ret' = NoRet
    /\ UNCHANGED <<node, insertVars, sargs, ref, tgt, lastOK, flags>>

\* ExceptHandler without the raise.
ExceptHandlerSwallow(e) ==
    /\ log' = Append(log, LogRecord("error", "Error checking in-scope entries",
                                    target_table, e))
    /\ ret' = ReturnNone
    /\ pc' = "done"
    /\ tgt' = [tgt EXCEPT !.work = tgt.committed]

\* Lines 250-252, with the exit of "with psycopg2.connect(...) as conn" that
\* the exception passes through (the connection rolls back).
ExceptHandler(e) ==
    /\ log' = Append(log, LogRecord("error", "Error checking in-scope entries",
                                    target_table, e))
    /\ ret' = Raise(e)
    /\ pc' = "done"
    /\ tgt' = [tgt EXCEPT !.work = tgt.committed]

\* Line 180: psycopg2.connect(credentials)
scope_connect ==
    /\ node = "scope"
    /\ pc = "connect"
    /\ pc' = "select_all"
    /\ spy' = [spy EXCEPT !.connect = spy.connect + 1]
    /\ UNCHANGED <<node, ret, log, insertVars, scopeVars, flags>>

\* Lines 183-188: SELECT id_column FROM dataset_matching WHERE dataset_column = %s
AllSkuIds(table, dataset_id) == {r.sku : r \in {x \in table : x.ds = dataset_id}}

scope_select_all ==
    /\ node = "scope"
    /\ pc = "select_all"
    /\ pc' = "select_existing"
    /\ spy' = [spy EXCEPT !.execute = spy.execute + 1]
    /\ sloc' = [sloc EXCEPT !.all_sku_ids = AllSkuIds(ref, sargs.dataset_id)]
    /\ UNCHANGED <<node, ret, log, insertVars, sargs, ref, tgt, lastOK, flags>>

\* ExistingSkuIds without the conditions on the extra key columns.
ExistingSkuIdsAnyExtra(table, a) ==
    {r.sku : r \in {x \in table : x.ds = a.dataset_id}}

\* Lines 191-206: SELECT DISTINCT id_column FROM target WHERE dataset_column = %s
\* [AND extra key = %s ...]
ExistingSkuIds(table, a) ==
    {r.sku : r \in {x \in table :
        /\ x.ds = a.dataset_id
        /\ (Truthy(a.further_primary_keys) => x.k = a.further_primary_keys_values)}}

\* What the driver or the server refuses in the query of lines 201-205.
SelectExistingError(a, extra) ==
    IF Truthy(a.further_primary_keys)
       /\ Len(a.further_primary_keys_values) # Len(a.further_primary_keys)
    THEN "ProgrammingError:parameters"
    ELSE IF Truthy(a.further_primary_keys) /\ a.further_primary_keys # extra
    THEN "UndefinedColumn"
    ELSE ""

\* Lines 201-212 and 247-248.
scope_select_existing ==
    /\ node = "scope"
    /\ pc = "select_existing"
    /\ spy' = [spy EXCEPT !.execute = spy.execute + 1]
    /\ IF SelectExistingError(sargs, tgt.extra) # ""
       THEN /\ ExceptHandler(SelectExistingError(sargs, tgt.extra))
            /\ sloc' = [sloc EXCEPT !.error = SelectExistingError(sargs, tgt.extra)]
       ELSE LET existing == ExistingSkuIds(tgt.work, sargs)
                missing == sloc.all_sku_ids \ existing
            IN  /\ sloc' = [sloc EXCEPT !.existing_sku_ids = existing, !.todo = missing]
                /\ IF missing # {}
                   THEN /\ pc' = "insert"
                        /\ log' = Append(log, LogRecord("info", "Adding missing IDs",
                                                        target_table, ""))
                   ELSE /\ pc' = "exit"
                        /\ log' = Append(log, LogRecord("info", "No missing IDs to handle.",
                                                        "", ""))
                /\ UNCHANGED <<ret, tgt>>
    /\ UNCHANGED <<node, insertVars, sargs, ref, lastOK, flags>>

\* The list a possibly absent list argument stands for: further_primary_keys or []
OrEmpty(list) == IF list = None THEN <<>> ELSE list

\* What the driver or the server refuses in the INSERT of lines 231-243.
InsertError(a, extra) ==
    IF (IF Truthy(a.further_primary_keys_values)
        THEN Len(a.further_primary_keys_values) ELSE 0)
       # (IF Truthy(a.further_primary_keys) THEN Len(a.further_primary_keys) ELSE 0)
    THEN "ProgrammingError:parameters"
    ELSE IF OrEmpty(a.further_primary_keys) # extra
    THEN "InvalidColumnReference"
    ELSE ""

\* INSERT INTO target (id, dataset, insert_arguments..., extra keys...)
\* VALUES (%s, %s, 0, ..., %s ...) ON CONFLICT (id, dataset, extra keys) DO NOTHING
Placeholder(sku_id, a) ==
    [sku |-> sku_id, ds |-> a.dataset_id,
     k |-> IF Truthy(a.further_primary_keys_values)
           THEN a.further_primary_keys_values ELSE <<>>,
     a |-> [j \in 1..Len(insert_arguments) |-> 0]]

InsertPlaceholder(table, sku_id, a) ==
    LET row == Placeholder(sku_id, a)
    IN  IF \E r \in table : r.sku = row.sku /\ r.ds = row.ds /\ r.k = row.k
        THEN table
        ELSE table \cup {row}

\* Lines 225-243: the insert for one missing id (a set is iterated in no
\* particular order).
scope_insert ==
    /\ node = "scope"
    /\ pc = "insert"
    /\ sloc.todo # {}
    /\ spy' = [spy EXCEPT !.execute = spy.execute + 1]
    /\ IF InsertError(sargs, tgt.extra) # ""
       THEN /\ ExceptHandler(InsertError(sargs, tgt.extra))
            /\ sloc' = [sloc EXCEPT !.error = InsertError(sargs, tgt.extra)]
       ELSE \E sku_id \in sloc.todo :
              /\ tgt' = [tgt EXCEPT !.work = InsertPlaceholder(tgt.work, sku_id, sargs)]
              /\ sloc' = [sloc EXCEPT !.todo = sloc.todo \ {sku_id}]
              /\ UNCHANGED <<pc, ret, log>>
    /\ UNCHANGED <<node, insertVars, sargs, ref, lastOK, flags>>

\* Lines 245-246: conn.commit() after the last insert.
scope_commit ==
    /\ node = "scope"
    /\ pc = "insert"
    /\ sloc.todo = {}
    /\ pc' = "exit"
    /\ spy' = [spy EXCEPT !.commit = spy.commit + 1]
    /\ tgt' = [tgt EXCEPT !.committed = tgt.work]
    /\ log' = Append(log, LogRecord("info", "Missing IDs handled successfully",
                                    target_table, ""))
    /\ UNCHANGED <<node, ret, insertVars, sargs, sloc, ref, lastOK, flags>>

\* The end of the two with blocks (the connection commits) and the return.
scope_return ==
    /\ node = "scope"
    /\ pc = "exit"
    /\ pc' = "done"
    /\ tgt' = [tgt EXCEPT !.committed = tgt.work]
    /\ ret' = ReturnNone
    /\ UNCHANGED <<node, log, spy, insertVars, sargs, sloc, ref, lastOK, flags>>

\* The database call the function makes next at a position.
NextDatabaseCall(step, todo) ==
    CASE step = "connect" -> "connect"
      [] step = "select_all" -> "select_all"
      [] step = "select_existing" -> "select_existing"
      [] step = "insert" /\ todo # {} -> "insert"
      [] OTHER -> "commit"

DatabaseErrorAt(call) ==
    CASE call = "connect" -> "OperationalError:connect"
      [] call = "select_all" -> "DatabaseError:select_all"
      [] call = "select_existing" -> "DatabaseError:select_existing"
      [] call = "insert" -> "DatabaseError:insert"
      [] OTHER -> "DatabaseError:commit"

SpyAfter(call) ==
    CASE call = "connect" -> [spy EXCEPT !.connect = spy.connect + 1]
      [] call = "commit" -> [spy EXCEPT !.commit = spy.commit + 1]
      [] OTHER -> [spy EXCEPT !.execute = spy.execute + 1]

\* The database fails at the call the function has reached: connecting, one
\* of the two queries, an insert, the commit of line 245 or the commit at
\* the end of the with block.
scope_database_error ==
    /\ node = "scope"
    /\ pc \in {"connect", "select_all", "select_existing", "insert", "exit"}
    /\ ExceptHandler(DatabaseErrorAt(NextDatabaseCall(pc, sloc.todo)))
    /\ sloc' = [sloc EXCEPT !.error = DatabaseErrorAt(NextDatabaseCall(pc, sloc.todo))]
    /\ spy' = SpyAfter(NextDatabaseCall(pc, sloc.todo))
    /\ UNCHANGED <<node, insertVars, sargs, ref, lastOK, flags>>

\* The caller takes the outcome; a later run of the node calls again with
\* the same arguments.
scope_caller_continues ==
    /\ node = "scope"
    /\ pc = "done"
    /\ pc' = "idle"
    /\ ret' = NoRet
    /\ log' = <<>>
    /\ spy' = NoSpy
    /\ sloc' = NoScopeLoc
    /\ lastOK' = (ret.kind = "return")
    /\ UNCHANGED <<node, insertVars, sargs, ref, tgt, flags>>

(***************************************************************************)
(* verify_db_write_status                                                  *)
(***************************************************************************)
MaxFlags == 6

\* any(args) in place of all(args).
AnyFlag(s) == \E i \in 1..Len(s) : s[i]

\* all(args): False at the first false element, True when there is none.
RECURSIVE all(_)
all(s) == IF s = <<>> THEN TRUE ELSE IF ~Head(s) THEN FALSE ELSE all(Tail(s))

InitStatus ==
    /\ node = "status"
    /\ pc = "idle"
    /\ ret = NoRet
    /\ log = <<>>
    /\ spy = NoSpy
    /\ args = NoArgs
    /\ loc = NoLoc
    /\ conn = [committed |-> {}, work |-> {}, status |-> "idle"]
    /\ firstIds = [k \in KeyValues |-> 0]
    /\ sargs = NoScopeArgs
    /\ sloc = NoScopeLoc
    /\ ref = {}
    /\ tgt = NoTarget
    /\ lastOK = FALSE
    /\ flags = <<>>

\* Lines 12-29.
verify_db_write_status(f) ==
    /\ node = "status"
    /\ pc = "idle"
    /\ flags' = f
    /\ ret' = ReturnBool(all(f))
    /\ pc' = "done"
    /\ UNCHANGED <<node, log, spy, insertVars, scopeVars>>

status_caller_continues ==
    /\ node = "status"
    /\ pc = "done"
    /\ pc' = "idle"
    /\ flags' = <<>>
    /\ ret' = NoRet
    /\ UNCHANGED <<node, log, spy, insertVars, scopeVars>>

Init == InitInsert \/ InitScope \/ InitStatus

Next ==
    \/ \E a \in InsertInputs : insert_multi_rows(a)
    \/ insert_row_returning_id
    \/ insert_row_no_id
    \/ insert_execute_fails
    \/ insert_return_with_ids
    \/ insert_return_none
    \/ caller_continues
    \/ check_in_scope_entries
    \/ scope_connect
    \/ scope_select_all
    \/ scope_select_existing
    \/ scope_insert
    \/ scope_commit
    \/ scope_return
    \/ scope_database_error
    \/ scope_caller_continues
    \/ \E f \in SeqsUpTo(BOOLEAN, MaxFlags) : verify_db_write_status(f)
    \/ status_caller_continues

Spec == Init /\ [][Next]_vars

(***************************************************************************)
(* Properties                                                              *)
(***************************************************************************)
KeysOf(table) == {r.key.v : r \in table}
InsertReturned == node = "insert" /\ pc = "done" /\ ret.kind = "return"

\* The malformed calls of insert_multi_rows: a column_names or types count
\* different from the field count, a value that its type cannot be built
\* from, or return_with_ids without unique_columns.
Malformed(a) ==
    \/ Len(a.column_names) # Len(DataColumns)
    \/ Len(a.types) # Len(DataColumns)
    \/ \E i \in 1..Len(a.data) : \E j \in 1..Len(DataColumns) :
          j <= Len(a.types) /\ ~CanCoerce(a.types[j], a.data[i][j])
    \/ (a.return_with_ids /\ a.unique_columns \in {None, <<>>})

\* C1: a malformed call of insert_multi_rows ends with an exception after no
\* cur.execute and no conn.commit, the table untouched; a call of
\* check_in_scope_entries with exactly one of further_primary_keys and
\* further_primary_keys_values ends with an exception before the connection
\* is opened.
C1_RejectedBeforeDatabaseWork ==
    /\ (node = "insert" /\ pc # "idle" /\ Malformed(args)) =>
          /\ pc = "done"
          /\ ret.kind = "raise"
          /\ spy.execute = 0
          /\ spy.commit = 0
          /\ conn.work = loc.tableAtCall
          /\ conn.committed = loc.tableAtCall
    /\ (/\ node = "scope"
        /\ pc # "idle"
        /\ (sargs.further_primary_keys = None) # (sargs.further_primary_keys_values = None)) =>
          /\ pc = "done"
          /\ ret.kind = "raise"
          /\ spy = NoSpy
          /\ tgt.committed = sloc.tableAtCall

\* A batch of MaxRows rows whose last row holds text is rejected, with rows
\* already in the table, before any execute.
C1_Witness ==
    /\ node = "insert"
    /\ pc = "done"
    /\ ret.exc = "ValueError:coercion"
    /\ Len(args.data) = MaxRows
    /\ args.data[MaxRows][2] = Text
    /\ loc.tableAtCall # {}
    /\ spy.execute = 0

\* C2: a call with return_with_ids that returns gives back the input batch
\* with one ID per record, in input order: the ID of the one table row that
\* holds the record's key.
C2_OneIdPerRecord ==
    /\ (node = "insert" /\ pc = "done" /\ args.return_with_ids /\ ~Malformed(args)) =>
          ret.exc # "ValueError:length"
    /\ (InsertReturned /\ args.return_with_ids) =>
          /\ ~ret.none
          /\ Len(ret.df) = Len(args.data)
          /\ \A i \in 1..Len(args.data) :
                /\ ret.df[i].row = args.data[i]
                /\ \E r \in conn.committed :
                      /\ {x \in conn.committed : x.key.v = args.data[i][1].v} = {r}
                      /\ ret.df[i].ID = r.ID

\* A returned batch of MaxRows records, one key already in the table at the
\* call, one not, one key twice in the batch.
C2_Witness ==
    /\ InsertReturned
    /\ args.return_with_ids
    /\ Len(args.data) = MaxRows
    /\ Cardinality(loc.tableAtCall) = 1
    /\ Cardinality(conn.committed) = 2
    /\ args.data[1][1].v \notin KeysOf(loc.tableAtCall)
    /\ args.data[2][1] = args.data[1][1]

\* C3: a returning call with return_with_ids reports, for every record whose
\* key an earlier such call reported, the ID reported first; when every key
\* of the batch was reported before, the table is left as it was at the call.
C3_RerunSameIds ==
    (InsertReturned /\ args.return_with_ids) =>
        /\ \A i \in 1..Len(args.data) :
              loc.seenAtCall[args.data[i][1].v] # 0 =>
                  ret.df[i].ID = loc.seenAtCall[args.data[i][1].v]
        /\ (\A i \in 1..Len(args.data) : loc.seenAtCall[args.data[i][1].v] # 0) =>
              conn.committed = loc.tableAtCall

\* A re-run over both keys, with a value different from the stored one.
C3_Witness ==
    /\ InsertReturned
    /\ args.return_with_ids
    /\ Len(args.data) >= 2
    /\ \A k \in KeyValues : loc.seenAtCall[k] # 0
    /\ KeysOf(loc.tableAtCall) = {args.data[i][1].v : i \in 1..Len(args.data)}
    /\ \E i \in 1..Len(args.data) : \E r \in loc.tableAtCall :
          r.key.v = args.data[i][1].v /\ r.val.v # args.data[i][2].v

\* The (key, value) pairs of a table and of a batch.
PairsOf(table) == {<<r.key.v, r.val.v>> : r \in table}
BatchPairs(data) == {<<data[i][1].v, data[i][2].v>> : i \in 1..Len(data)}
NoDuplicateKeys(data) ==
    \A i, j \in 1..Len(data) : data[i][1] = data[j][1] => i = j

\* C4: a returning call without return_with_ids returns None and leaves
\* every row that was in the table as it was; for a batch without duplicate
\* keys, run on a table that is empty or holds only rows earlier runs of the
\* batch put there, the table then holds exactly the len(batch) rows of the
\* batch.
C4_ModeAIdempotent ==
    (InsertReturned /\ ~args.return_with_ids) =>
        /\ ret.none
        /\ ret.df = <<>>
        /\ loc.tableAtCall \subseteq conn.committed
        /\ (NoDuplicateKeys(args.data) /\ PairsOf(loc.tableAtCall) \subseteq BatchPairs(args.data)) =>
              /\ Cardinality(conn.committed) = Len(args.data)
              /\ PairsOf(conn.committed) = BatchPairs(args.data)

\* A second run of a two-row batch on the table the first run left.
C4_Witness ==
    /\ InsertReturned
    /\ ~args.return_with_ids
    /\ NoDuplicateKeys(args.data)
    /\ Len(args.data) = 2
    /\ PairsOf(loc.tableAtCall) = BatchPairs(args.data)
    /\ spy.execute = 2

\* The rows the reconciler has to add, from the tables as the call found them.
Universe == {r.sku : r \in {x \in ref : x.ds = sargs.dataset_id}}
ExtraKeyValues ==
    IF sargs.further_primary_keys \in {None, <<>>} THEN <<>>
    ELSE sargs.further_primary_keys_values
ExistingAtCall ==
    {r.sku : r \in {x \in sloc.tableAtCall :
        x.ds = sargs.dataset_id /\ (ExtraKeyValues # <<>> => x.k = ExtraKeyValues)}}
PlaceholderRows ==
    {[sku |-> u, ds |-> sargs.dataset_id, k |-> ExtraKeyValues,
      a |-> [j \in 1..Len(insert_arguments) |-> 0]] : u \in Universe \ ExistingAtCall}

\* C5: a returning call of check_in_scope_entries leaves the target table as
\* it was plus exactly one all-zero row, keyed by (id, partition key, extra
\* key values), for each id of universe minus existing; a call after a call
\* that returned leaves the table as it found it.
C5_ReconcilerFillsGap ==
    (node = "scope" /\ pc = "done" /\ ret.kind = "return") =>
        /\ tgt.committed = sloc.tableAtCall \cup PlaceholderRows
        /\ PlaceholderRows \cap sloc.tableAtCall = {}
        /\ Cardinality(tgt.committed) =
              Cardinality(sloc.tableAtCall) + Cardinality(Universe \ ExistingAtCall)
        /\ lastOK => tgt.committed = sloc.tableAtCall

\* A run with an extra key that finds one id present and adds two, in a
\* table that also holds rows of another partition and another extra key.
C5_Witness ==
    /\ node = "scope"
    /\ pc = "done"
    /\ ret.kind = "return"
    /\ sargs.further_primary_keys = <<"k">>
    /\ Cardinality(ExistingAtCall) = 1
    /\ Cardinality(Universe \ ExistingAtCall) = 2
    /\ Cardinality(sloc.tableAtCall) > 1
    /\ Cardinality(tgt.committed) = Cardinality(sloc.tableAtCall) + 2

\* C6: inside the loop the number of commits is the number of completed
\* intervals and nothing executed is uncommitted at an interval boundary; a
\* returning call has committed once more after the last row, whatever the
\* row count, and leaves nothing uncommitted.
C6_CommitDiscipline ==
    /\ (node = "insert" /\ pc = "loop") =>
          /\ spy.execute = loc.row_count
          /\ spy.commit = loc.row_count \div batch_size_for_commit
          /\ (loc.row_count % batch_size_for_commit = 0) => conn.committed = conn.work
    /\ InsertReturned =>
          /\ spy.execute = Len(args.data)
          /\ spy.commit = (Len(args.data) \div batch_size_for_commit) + 1
          /\ conn.committed = conn.work
          /\ conn.status = "idle"

\* A returned batch that crossed an interval boundary and ended off it.
C6_Witness ==
    /\ InsertReturned
    /\ Len(args.data) > batch_size_for_commit
    /\ Len(args.data) % batch_size_for_commit # 0
    /\ spy.commit = 2
    /\ conn.committed # loc.tableAtCall

\* C7: when cur.execute fails on row k the exception reaches the caller, k
\* is the last row executed, the transaction is aborted, the function has
\* committed only at the interval boundaries before row k, and the table
\* holds, beyond what it held at the call, exactly the rows of those
\* completed intervals.
C7_FailureKeepsCommittedIntervals ==
    (node = "insert" /\ pc = "done" /\ ret.exc = "DatabaseError") =>
        LET done == loc.row_count
            kept == done - (done % batch_size_for_commit)
        IN  /\ ret.kind = "raise"
            /\ spy.execute = done + 1
            /\ spy.commit = done \div batch_size_for_commit
            /\ conn.status = "aborted"
            /\ loc.tableAtCall \subseteq conn.committed
            /\ KeysOf(conn.committed) =
                  KeysOf(loc.tableAtCall) \cup {args.data[i][1].v : i \in 1..kept}

\* The third row fails after the first interval of two new rows was committed.
C7_Witness ==
    /\ node = "insert"
    /\ pc = "done"
    /\ ret.exc = "DatabaseError"
    /\ spy.execute = 3
    /\ loc.tableAtCall = {}
    /\ Cardinality(conn.committed) = 2

\* An otherwise valid batch that holds a null.
NullBatch(a) ==
    /\ IsNullAny(a.data)
    /\ ~Malformed(a)

\* C8: a call with an otherwise valid batch that holds a null logs a warning,
\* is not stopped by the null, and inserts every record.
C8_NullsWarnedAndInserted ==
    (node = "insert" /\ pc = "done" /\ NullBatch(args) /\ ret.exc # "DatabaseError") =>
        /\ ret.kind = "return"
        /\ Len(log) = 1
        /\ log[1].level = "warning"
        /\ \A i \in 1..Len(args.data) : args.data[i][1].v \in KeysOf(conn.committed)

ErrorRecords == {i \in 1..Len(log) : log[i].level = "error"}

\* C9: once the database has failed in check_in_scope_entries the call is
\* over, the logger has received exactly one error record, carrying the
\* target table name and the exception, and that exception is raised; a call
\* that returns has met no database error and logged no error.
C9_LoggedThenReraised ==
    /\ (node = "scope" /\ sloc.error # "") =>
          /\ pc = "done"
          /\ ret.kind = "raise"
          /\ ret.exc = sloc.error
          /\ Cardinality(ErrorRecords) = 1
          /\ \A i \in ErrorRecords : log[i].table = target_table /\ log[i].exc = sloc.error
    /\ (node = "scope" /\ ret.kind = "return") =>
          /\ sloc.error = ""
          /\ ErrorRecords = {}

\* The second placeholder insert fails.
C9_Witness ==
    /\ node = "scope"
    /\ pc = "done"
    /\ sloc.error = "DatabaseError:insert"
    /\ spy.execute = 4
    /\ ret.exc = "DatabaseError:insert"

\* C10: verify_db_write_status returns a bool, True exactly when every flag
\* is True, and touches neither the logger nor a connection.
C10_LogicalAnd ==
    (node = "status" /\ pc = "done") =>
        /\ ret.kind = "return"
        /\ ret.bool = (\A i \in 1..Len(flags) : flags[i])
        /\ log = <<>>
        /\ spy = NoSpy

\* MaxFlags flags, all True but the last.
C10_Witness ==
    /\ node = "status"
    /\ pc = "done"
    /\ Len(flags) = MaxFlags
    /\ \A i \in 1..(MaxFlags - 1) : flags[i]
    /\ ~flags[MaxFlags]
    /\ ~ret.bool
====
